---- MODULE Spec2Model ----
(***************************************************************************)
(* Model of the checkpoint CLI of great_expectations:                      *)
(*   great_expectations/cli/checkpoint.py  (checkpoint_run and helpers)    *)
(* One behaviour is one `checkpoint run <name>` invocation against a       *)
(* project context whose contents are fixed in the initial state.          *)
(***************************************************************************)
EXTENDS Integers, Sequences, FiniteSets, TLC

\* ---------------------------------------------------------------- bounds
MaxBatches == 2      \* batch descriptors per checkpoint definition
MaxSuites == 2       \* suite names per batch descriptor

\* ------------------------------------------------------------ value sets
CheckpointName == "my_checkpoint"
KwargsSet == {"titanic_csv", "other_csv"}
SuiteNames == {"suite_one", "suite_two"}
OperatorNames == {"action_list_operator", "foo"}
RegisteredOperators == {"action_list_operator"}

SeqsUpTo(S, n) == UNION {[1..k -> S] : k \in 0..n}

\* one entry of the `batches` list of a checkpoint file
Descriptors ==
    [batch_kwargs : KwargsSet,
     expectation_suite_names : SeqsUpTo(SuiteNames, MaxSuites)]

\* a checkpoint definition as returned by context.get_checkpoint
CheckpointConfigs ==
    [validation_operator_name : OperatorNames,
     batches : SeqsUpTo(Descriptors, MaxBatches)]

\* `checkpoint_config = {}` (line 120): no batches, no operator name
EmptyConfig == [validation_operator_name |-> "none", batches |-> <<>>]

\* what the suite store and the data sources of a project may hold: the
\* first name of each set always resolves, the second may be missing
SuiteStores == {SuiteNames, {"suite_one"}}
Loadables == {KwargsSet, {"titanic_csv"}}

\* the project context: what its collaborators answer during this run
Contexts ==
    [get : {"found"}, config : CheckpointConfigs,
     suites : SuiteStores, loadable : Loadables,
     operators : {RegisteredOperators}]
    \cup
    [get : {"not_found", "error"}, config : {EmptyConfig},
     suites : SuiteStores, loadable : Loadables,
     operators : {RegisteredOperators}]

\* ------------------------------------------------- values of the program
\* what the Python name `batch` is bound to: a descriptor of the checkpoint
\* file (line 136) or the object returned by toolkit.load_batch (line 143)
Unbound ==
    [kind |-> "unbound", batch_kwargs |-> "none",
     expectation_suite_names |-> <<>>, suite |-> "none"]

DescriptorRef(d) ==
    [kind |-> "descriptor", batch_kwargs |-> d.batch_kwargs,
     expectation_suite_names |-> d.expectation_suite_names, suite |-> "none"]

Batch(kw, s) ==
    [kind |-> "Batch", batch_kwargs |-> kw,
     expectation_suite_names |-> <<>>, suite |-> s]

\* outcomes of subscripting a loaded batch object with "batch_kwargs"
BatchGetItem == {"raises", "kwargs"}

Msg(text, about) == [text |-> text, about |-> about]
Call(op, a, b) == [op |-> op, a |-> a, b |-> b]
Event(name, success) == [event |-> name, success |-> success]

NoExit == -1

\* what is known of an earlier invocation of checkpoint_run: nothing yet
NoRun ==
    [done |-> FALSE, calls |-> <<>>, assets |-> <<>>, status |-> NoExit,
     results |-> [success |-> FALSE], exception |-> "none"]

VARIABLES
    context,              \* the project context (fixed during the run)
    pc,                   \* position of checkpoint_run
    usage_event,          \* local usage_event
    checkpoint_config,    \* local checkpoint_config
    bi,                   \* position of the outer for loop
    batch,                \* local batch
    suite_iter,           \* the list the inner for loop iterates
    si,                   \* position of the inner for loop
    suite,                \* local suite
    batches_to_validate,  \* local batches_to_validate
    assets_to_validate,   \* argument of the last operator invocation
    results,              \* local results
    stdout,               \* messages printed by cli_message
    events,               \* usage messages emitted
    exit_code,            \* status given to sys.exit, NoExit if none
    exception,            \* uncaught exception, "none" if none
    calls,                \* collaborator calls made, in order
    checkpoints,          \* checkpoint_list: local checkpoints
    cls,                  \* the batch kwargs class being instantiated
    kwargs,               \* the mapping of the instance, in insertion order
    raised,               \* what the constructor raised, "none" if nothing
    accessor,             \* the property read last
    value,                \* what that property returned
    prior                 \* the earlier invocation of checkpoint_run, if any

vars ==
    <<context, pc, usage_event, checkpoint_config, bi, batch, suite_iter, si,
      suite, batches_to_validate, assets_to_validate, results, stdout, events,
      exit_code, exception, calls, checkpoints, cls, kwargs, raised, accessor,
      value, prior>>

\* what checkpoint_run never touches
othervars == <<checkpoints, cls, kwargs, raised, accessor, value, prior>>

loopvars == <<bi, batch, suite_iter, si, suite, batches_to_validate>>

Init ==
    /\ context \in Contexts
    /\ pc = "start"
    /\ usage_event = "none"
    /\ checkpoint_config = EmptyConfig
    /\ bi = 0
    /\ batch = Unbound
    /\ suite_iter = <<>>
    /\ si = 0
    /\ suite = "none"
    /\ batches_to_validate = <<>>
    /\ assets_to_validate = <<>>
    /\ results = [success |-> FALSE]
    /\ stdout = <<>>
    /\ events = <<>>
    /\ exit_code = NoExit
    /\ exception = "none"
    /\ calls = <<>>
    /\ checkpoints = <<>>
    /\ cls = "none"
    /\ kwargs = <<>>
    /\ raised = "none"
    /\ accessor = "none"
    /\ value = "none"
    /\ prior = NoRun

\* ------------------------------------------------------------- helpers
\* an exception nobody catches leaves checkpoint_run
Raise(exc) ==
    /\ pc' = "crashed"
    /\ exception' = exc
    /\ UNCHANGED <<stdout, events, exit_code>>

\* _exit_with_failure_message without its sys.exit(1): the caller goes on
ExitWithFailureMessage_Returns(usage, message) ==
    /\ stdout' = Append(stdout, message)
    /\ events' = Append(events, Event(usage, FALSE))
    /\ pc' = "batches"
    /\ UNCHANGED <<exit_code, exception>>

\* _exit_with_failure_message(context, usage_event, message)
ExitWithFailureMessage(usage, message) ==
    /\ stdout' = Append(stdout, message)
    /\ events' = Append(events, Event(usage, FALSE))
    /\ exit_code' = 1
    /\ pc' = "exited"
    /\ UNCHANGED exception

\* a call of _exit_with_failure_message with the positional arguments args:
\* the function has three required parameters
CallExitWithFailureMessage(args) ==
    IF Len(args) = 3
    THEN ExitWithFailureMessage(args[2], args[3])
    ELSE Raise("TypeError")

\* load_expectation_suite(context, suite_name) when the suite is missing
LoadExpectationSuiteExit(suite_name) ==
    /\ stdout' = Append(stdout, Msg("Could not find a suite named", suite_name))
    /\ events' = Append(events, Event("cli.checkpoint.run", FALSE))
    /\ exit_code' = 1
    /\ pc' = "exited"
    /\ UNCHANGED exception

\* ------------------------------------------------------------- actions
\* lines 117-118
LoadDataContext ==
    /\ pc = "start"
    /\ UNCHANGED othervars
    /\ events' = Append(events, Event("data_context.__init__", TRUE))
    /\ usage_event' = "cli.checkpoint.list"
    /\ pc' = "get_checkpoint"
    /\ UNCHANGED <<context, checkpoint_config, loopvars, assets_to_validate,
                   results, stdout, exit_code, exception, calls>>

\* lines 120-135
GetCheckpoint ==
    /\ pc = "get_checkpoint"
    /\ UNCHANGED othervars
    /\ calls' = Append(calls, Call("get_checkpoint", CheckpointName, "none"))
    /\ CASE context.get = "found" ->
              /\ checkpoint_config' = context.config
              /\ pc' = "batches"
              /\ UNCHANGED <<stdout, events, exit_code, exception>>
         [] context.get = "not_found" ->
              /\ CallExitWithFailureMessage(
                    <<"context", usage_event,
                      Msg("Could not find checkpoint. Try running", CheckpointName)>>)
              /\ UNCHANGED checkpoint_config
         [] context.get = "error" ->
              /\ CallExitWithFailureMessage(
                    <<"context", usage_event, Msg("CheckpointError", CheckpointName)>>)
              /\ UNCHANGED checkpoint_config
    /\ UNCHANGED <<context, usage_event, loopvars, assets_to_validate, results>>

\* line 136, and line 137 where the inner loop takes its list
NextBatch ==
    /\ pc = "batches"
    /\ UNCHANGED othervars
    /\ IF bi < Len(checkpoint_config.batches)
       THEN LET d == checkpoint_config.batches[bi + 1] IN
            /\ bi' = bi + 1
            /\ batch' = DescriptorRef(d)
            /\ suite_iter' = d.expectation_suite_names
            /\ si' = 0
            /\ pc' = "suites"
       ELSE /\ pc' = "operator"
            /\ UNCHANGED <<bi, batch, suite_iter, si>>
    /\ UNCHANGED <<context, usage_event, checkpoint_config, suite,
                   batches_to_validate, assets_to_validate, results, stdout,
                   events, exit_code, exception, calls>>

\* lines 137-138 with the outcome of load_expectation_suite ignored
NextSuite_IgnoresMissingSuite ==
    /\ pc = "suites"
    /\ UNCHANGED othervars
    /\ IF si < Len(suite_iter)
       THEN LET suite_name == suite_iter[si + 1] IN
            /\ si' = si + 1
            /\ calls' = Append(calls, Call("load_expectation_suite", suite_name, "none"))
            /\ suite' = suite_name
            /\ pc' = "load_batch"
            /\ UNCHANGED <<stdout, events, exit_code, exception>>
       ELSE /\ pc' = "batches"
            /\ UNCHANGED <<si, suite, calls, stdout, events, exit_code, exception>>
    /\ UNCHANGED <<context, usage_event, checkpoint_config, bi, batch,
                   suite_iter, batches_to_validate, assets_to_validate, results>>

\* lines 137-138
NextSuite ==
    /\ pc = "suites"
    /\ UNCHANGED othervars
    /\ IF si < Len(suite_iter)
       THEN LET suite_name == suite_iter[si + 1] IN
            /\ si' = si + 1
            /\ calls' = Append(calls, Call("load_expectation_suite", suite_name, "none"))
            /\ IF suite_name \in context.suites
               THEN /\ suite' = suite_name
                    /\ pc' = "load_batch"
                    /\ UNCHANGED <<stdout, events, exit_code, exception>>
               ELSE /\ LoadExpectationSuiteExit(suite_name)
                    /\ UNCHANGED suite
       ELSE /\ pc' = "batches"
            /\ UNCHANGED <<si, suite, calls, stdout, events, exit_code, exception>>
    /\ UNCHANGED <<context, usage_event, checkpoint_config, bi, batch,
                   suite_iter, batches_to_validate, assets_to_validate, results>>

\* lines 139-146
LoadBatch ==
    /\ pc = "load_batch"
    /\ UNCHANGED othervars
    /\ \E g \in BatchGetItem :
         IF batch.kind = "Batch" /\ g = "raises"
         THEN /\ Raise("KeyError")
              /\ UNCHANGED <<batch, batches_to_validate, calls>>
         ELSE LET batch_kwargs == batch.batch_kwargs IN
              /\ calls' = Append(calls, Call("load_batch", suite, batch_kwargs))
              /\ IF batch_kwargs \in context.loadable
                 THEN /\ batch' = Batch(batch_kwargs, suite)
                      /\ batches_to_validate' =
                            Append(batches_to_validate, Batch(batch_kwargs, suite))
                      /\ pc' = "suites"
                      /\ UNCHANGED <<stdout, events, exit_code, exception>>
                 ELSE /\ CallExitWithFailureMessage(<<Msg("DataContextError", batch_kwargs)>>)
                      /\ UNCHANGED <<batch, batches_to_validate>>
    /\ UNCHANGED <<context, usage_event, checkpoint_config, bi, suite_iter, si,
                   suite, assets_to_validate, results>>

\* lines 148-155
RunValidationOperator ==
    /\ pc = "operator"
    /\ UNCHANGED othervars
    /\ LET validation_operator_name == checkpoint_config.validation_operator_name IN
       /\ calls' = Append(calls,
                     Call("run_validation_operator", validation_operator_name, "none"))
       /\ assets_to_validate' = batches_to_validate
       /\ IF validation_operator_name \in context.operators
          THEN /\ \E success \in BOOLEAN : results' = [success |-> success]
               /\ pc' = "report"
               /\ UNCHANGED <<stdout, events, exit_code, exception>>
          ELSE /\ Raise("DataContextError")
               /\ UNCHANGED results
    /\ UNCHANGED <<context, usage_event, checkpoint_config, loopvars>>

\* lines 157-166 with the event of a failed validation marked success=False
Report_FailureEvent ==
    /\ pc = "report"
    /\ UNCHANGED othervars
    /\ IF ~results.success
       THEN /\ stdout' = Append(stdout, Msg("Validation Failed!", "none"))
            /\ events' = Append(events, Event(usage_event, FALSE))
            /\ exit_code' = 1
       ELSE /\ stdout' = Append(stdout, Msg("Validation Succeeded!", "none"))
            /\ events' = Append(events, Event(usage_event, TRUE))
            /\ exit_code' = 0
    /\ pc' = "exited"
    /\ UNCHANGED <<context, usage_event, checkpoint_config, loopvars,
                   assets_to_validate, results, exception, calls>>

\* lines 157-166
Report ==
    /\ pc = "report"
    /\ UNCHANGED othervars
    /\ IF ~results.success
       THEN /\ stdout' = Append(stdout, Msg("Validation Failed!", "none"))
            /\ events' = Append(events, Event(usage_event, TRUE))
            /\ exit_code' = 1
       ELSE /\ stdout' = Append(stdout, Msg("Validation Succeeded!", "none"))
            /\ events' = Append(events, Event(usage_event, TRUE))
            /\ exit_code' = 0
    /\ pc' = "exited"
    /\ UNCHANGED <<context, usage_event, checkpoint_config, loopvars,
                   assets_to_validate, results, exception, calls>>

Next ==
    \/ LoadDataContext
    \/ GetCheckpoint
    \/ NextBatch
    \/ NextSuite
    \/ LoadBatch
    \/ RunValidationOperator
    \/ Report

Spec == Init /\ [][Next]_vars

\* ------------------------------------------------------------ typing
TypeOK ==
    /\ context \in Contexts
    /\ pc \in {"start", "get_checkpoint", "batches", "suites", "load_batch",
               "operator", "report", "exited", "crashed"}
    /\ bi \in 0..MaxBatches
    /\ si \in 0..MaxSuites
    /\ exit_code \in {NoExit, 0, 1}
    /\ exception \in {"none", "TypeError", "KeyError", "DataContextError"}
    /\ Len(batches_to_validate) <= MaxBatches * MaxSuites

\* ======================================================== checkpoint list
\* great_expectations/cli/checkpoint.py, checkpoint_list (lines 83-103)
MaxCheckpoints == 3     \* checkpoints defined in a project

StoredCheckpointNames ==
    {CheckpointName, "checkpoint_b", "checkpoint_c", "checkpoint_d"}

\* lists without repetition: the names of the files of a directory
InjectiveSeqsUpTo(S, n) ==
    {q \in SeqsUpTo(S, n) : \A i, j \in DOMAIN q : i # j => q[i] # q[j]}

\* the project context of a `checkpoint list` invocation
ListContexts == [checkpoints : InjectiveSeqsUpTo(StoredCheckpointNames, MaxCheckpoints)]

InitList ==
    /\ context \in ListContexts
    /\ pc = "list_start"
    /\ usage_event = "none"
    /\ checkpoint_config = EmptyConfig
    /\ bi = 0
    /\ batch = Unbound
    /\ suite_iter = <<>>
    /\ si = 0
    /\ suite = "none"
    /\ batches_to_validate = <<>>
    /\ assets_to_validate = <<>>
    /\ results = [success |-> FALSE]
    /\ stdout = <<>>
    /\ events = <<>>
    /\ exit_code = NoExit
    /\ exception = "none"
    /\ calls = <<>>
    /\ checkpoints = <<>>
    /\ cls = "none"
    /\ kwargs = <<>>
    /\ raised = "none"
    /\ accessor = "none"
    /\ value = "none"
    /\ prior = NoRun

\* what checkpoint_list never touches
runvars ==
    <<usage_event, checkpoint_config, loopvars, assets_to_validate, results,
      cls, kwargs, raised, accessor, value, prior>>

\* line 101 with `>= 1` for `> 1`
Plural_FromOne(number_found) == IF number_found >= 1 THEN "s" ELSE ""

\* line 101
Plural(number_found) == IF number_found > 1 THEN "s" ELSE ""

\* line 102: f"Found {number_found} checkpoint{plural}."
FoundMessage(number_found, plural) ==
    Msg(IF plural = "s" THEN "Found N checkpoints." ELSE "Found N checkpoint.",
        number_found)

\* cli_message_list(items, list_intro_string): the intro, then one line per item
CliMessageList(items, list_intro_string) ==
    <<list_intro_string>> \o [i \in 1..Len(items) |-> Msg(" - item", items[i])]

\* line 93
ListLoadDataContext ==
    /\ pc = "list_start"
    /\ events' = Append(events, Event("data_context.__init__", TRUE))
    /\ pc' = "list_checkpoints"
    /\ UNCHANGED <<context, runvars, stdout, exit_code, exception, calls, checkpoints>>

\* lines 95-98
ListCheckpoints ==
    /\ pc = "list_checkpoints"
    /\ calls' = Append(calls, Call("list_checkpoints", "none", "none"))
    /\ checkpoints' = context.checkpoints
    /\ IF checkpoints' = <<>>
       THEN /\ stdout' = Append(stdout, Msg("No checkpoints found.", "none"))
            /\ exit_code' = 0
            /\ pc' = "exited"
       ELSE /\ pc' = "list_report"
            /\ UNCHANGED <<stdout, exit_code>>
    /\ UNCHANGED <<context, runvars, events, exception>>

\* lines 100-103; the function then returns to click
ListReport ==
    /\ pc = "list_report"
    /\ LET number_found == Len(checkpoints)
           plural == Plural(number_found)
           message == FoundMessage(number_found, plural)
       IN stdout' = stdout \o CliMessageList(checkpoints, message)
    /\ pc' = "returned"
    /\ UNCHANGED <<context, runvars, events, exit_code, exception, calls, checkpoints>>

NextList ==
    \/ ListLoadDataContext
    \/ ListCheckpoints
    \/ ListReport

SpecList == InitList /\ [][NextList]_vars


\* ============================================================ batch kwargs
\* great_expectations/datasource/types/batch_kwargs.py
MaxKeys == 2            \* entries of the mapping given to a constructor

Keys ==
    {"path", "s3", "dataset", "table", "query", "reader_method", "limit",
     "schema", "query_parameters", "ge_load_time"}

\* the keys in sorted order
KeyOrder ==
    <<"dataset", "ge_load_time", "limit", "path", "query", "query_parameters",
      "reader_method", "s3", "schema", "table">>

\* a pandas DataFrame, a pyspark DataFrame, anything else
Values == {"pandas_df", "spark_df", "text"}

Classes ==
    {"BatchMarkers", "PathBatchKwargs", "S3BatchKwargs", "InMemoryBatchKwargs",
     "PandasDatasourceInMemoryBatchKwargs", "SparkDFDatasourceInMemoryBatchKwargs",
     "SqlAlchemyDatasourceTableBatchKwargs", "SqlAlchemyDatasourceQueryBatchKwargs",
     "SparkDFDatasourceQueryBatchKwargs"}

\* a dict: its items in insertion order, no key twice
Mappings ==
    {q \in SeqsUpTo(Keys \X Values, MaxKeys) :
        \A i, j \in DOMAIN q : i # j => q[i][1] # q[j][1]}

\* whether `import pyspark` succeeds where the code runs
KwargsEnvironments == [pyspark : BOOLEAN]

\* `key in self`
Has(m, key) == \E i \in DOMAIN m : m[i][1] = key

\* self[key]
GetItem(m, key) ==
    IF Has(m, key) THEN m[CHOOSE i \in DOMAIN m : m[i][1] = key][2] ELSE "KeyError"

\* self[key] where self.get(key) is written
DictGet_Subscript(m, key) ==
    IF Has(m, key) THEN m[CHOOSE i \in DOMAIN m : m[i][1] = key][2] ELSE "KeyError"

\* self.get(key)
DictGet(m, key) ==
    IF Has(m, key) THEN m[CHOOSE i \in DOMAIN m : m[i][1] = key][2] ELSE "None"

\* BatchMarkers.__init__ raising the error of the kwargs classes
BatchMarkersInit_KwargsError(m) ==
    IF ~Has(m, "ge_load_time") THEN "InvalidBatchKwargsError" ELSE "none"

\* BatchMarkers.__init__ (lines 15-18): what it raises
BatchMarkersInit(m) ==
    IF ~Has(m, "ge_load_time") THEN "InvalidBatchIdError" ELSE "none"

\* PathBatchKwargs.__init__ (lines 53-56)
PathBatchKwargsInit(m) ==
    IF ~Has(m, "path") THEN "InvalidBatchKwargsError" ELSE "none"

\* S3BatchKwargs.__init__ requiring the key its message names
S3BatchKwargsInit_Path(m) ==
    IF ~Has(m, "path") THEN "InvalidBatchKwargsError" ELSE "none"

\* S3BatchKwargs.__init__ (lines 68-71)
S3BatchKwargsInit(m) ==
    IF ~Has(m, "s3") THEN "InvalidBatchKwargsError" ELSE "none"

\* InMemoryBatchKwargs.__init__ (lines 82-85)
InMemoryBatchKwargsInit(m) ==
    IF ~Has(m, "dataset") THEN "InvalidBatchKwargsError" ELSE "none"

\* PandasDatasourceInMemoryBatchKwargs.__init__ without its super().__init__
PandasInMemoryInit_NoSuper(m) ==
    LET dataset == GetItem(m, "dataset") IN
    IF dataset = "KeyError" THEN "KeyError"
    ELSE IF dataset # "pandas_df" THEN "InvalidBatchKwargsError"
    ELSE "none"

\* PandasDatasourceInMemoryBatchKwargs.__init__ (lines 93-97)
PandasInMemoryInit(m) ==
    LET base == InMemoryBatchKwargsInit(m)
        dataset == GetItem(m, "dataset")
    IN IF base # "none" THEN base
       ELSE IF dataset = "KeyError" THEN "KeyError"
       ELSE IF dataset # "pandas_df" THEN "InvalidBatchKwargsError"
       ELSE "none"

\* SparkDFDatasourceInMemoryBatchKwargs.__init__ (lines 101-110)
SparkInMemoryInit(m, pyspark) ==
    LET base == InMemoryBatchKwargsInit(m)
        dataset == GetItem(m, "dataset")
    IN IF base # "none" THEN base
       ELSE IF ~pyspark THEN "InvalidBatchKwargsError"
       ELSE IF dataset = "KeyError" THEN "KeyError"
       ELSE IF dataset # "spark_df" THEN "InvalidBatchKwargsError"
       ELSE "none"

\* SqlAlchemyDatasourceTableBatchKwargs.__init__ (lines 114-117)
SqlTableInit(m) ==
    IF ~Has(m, "table") THEN "InvalidBatchKwargsError" ELSE "none"

\* SqlAlchemyDatasourceQueryBatchKwargs.__init__ (lines 125-128)
SqlQueryInit(m) ==
    IF ~Has(m, "query") THEN "InvalidBatchKwargsError" ELSE "none"

\* SparkDFDatasourceQueryBatchKwargs.__init__ (lines 140-143)
SparkQueryInit(m) ==
    IF ~Has(m, "query") THEN "InvalidBatchKwargsError" ELSE "none"

\* what class c's constructor raises on mapping m, "none" if it returns
ConstructorRaises(c, m, pyspark) ==
    CASE c = "BatchMarkers" -> BatchMarkersInit(m)
      [] c = "PathBatchKwargs" -> PathBatchKwargsInit(m)
      [] c = "S3BatchKwargs" -> S3BatchKwargsInit(m)
      [] c = "InMemoryBatchKwargs" -> InMemoryBatchKwargsInit(m)
      [] c = "PandasDatasourceInMemoryBatchKwargs" -> PandasInMemoryInit(m)
      [] c = "SparkDFDatasourceInMemoryBatchKwargs" -> SparkInMemoryInit(m, pyspark)
      [] c = "SqlAlchemyDatasourceTableBatchKwargs" -> SqlTableInit(m)
      [] c = "SqlAlchemyDatasourceQueryBatchKwargs" -> SqlQueryInit(m)
      [] c = "SparkDFDatasourceQueryBatchKwargs" -> SparkQueryInit(m)

\* the properties of class c, inherited ones included
Accessors(c) ==
    CASE c = "BatchMarkers" -> {"ge_load_time"}
      [] c = "PathBatchKwargs" -> {"path", "reader_method"}
      [] c = "S3BatchKwargs" -> {"s3", "reader_method"}
      [] c \in {"InMemoryBatchKwargs", "PandasDatasourceInMemoryBatchKwargs",
                "SparkDFDatasourceInMemoryBatchKwargs"} -> {"dataset"}
      [] c = "SqlAlchemyDatasourceTableBatchKwargs" -> {"table", "limit", "schema"}
      [] c = "SqlAlchemyDatasourceQueryBatchKwargs" ->
            {"query", "query_parameters", "limit", "schema"}
      [] c = "SparkDFDatasourceQueryBatchKwargs" -> {"query"}

\* the items of m in the order its keys were inserted
Fingerprint_InsertionOrder(m) == m

\* the fingerprint of a mapping: its items serialized in sorted key order
Fingerprint(m) ==
    LET present == SelectSeq(KeyOrder, LAMBDA k : Has(m, k))
    IN [i \in DOMAIN present |-> <<present[i], DictGet(m, present[i])>>]

InitKwargs ==
    /\ context \in KwargsEnvironments
    /\ pc = "new"
    /\ cls \in Classes
    /\ kwargs \in Mappings
    /\ raised = "none"
    /\ accessor = "none"
    /\ value = "none"
    /\ prior = NoRun
    /\ usage_event = "none"
    /\ checkpoint_config = EmptyConfig
    /\ bi = 0
    /\ batch = Unbound
    /\ suite_iter = <<>>
    /\ si = 0
    /\ suite = "none"
    /\ batches_to_validate = <<>>
    /\ assets_to_validate = <<>>
    /\ results = [success |-> FALSE]
    /\ stdout = <<>>
    /\ events = <<>>
    /\ exit_code = NoExit
    /\ exception = "none"
    /\ calls = <<>>
    /\ checkpoints = <<>>

\* what the batch kwargs classes never touch
clivars ==
    <<context, usage_event, checkpoint_config, loopvars, assets_to_validate,
      results, stdout, events, exit_code, exception, calls, checkpoints,
      prior>>

\* cls(kwargs): the __init__ chain of the class
Construct ==
    /\ pc = "new"
    /\ raised' = ConstructorRaises(cls, kwargs, context.pyspark)
    /\ pc' = IF raised' = "none" THEN "constructed" ELSE "failed"
    /\ UNCHANGED <<clivars, cls, kwargs, accessor, value>>

\* reading one property of the instance
Access ==
    /\ pc \in {"constructed", "accessed"}
    /\ \E a \in Accessors(cls) :
         /\ accessor' = a
         /\ value' = DictGet(kwargs, a)
    /\ pc' = "accessed"
    /\ UNCHANGED <<clivars, cls, kwargs, raised>>

NextKwargs ==
    \/ Construct
    \/ Access

SpecKwargs == InitKwargs /\ [][NextKwargs]_vars


\* ------------------------------------------------- vocabulary of the claims
Terminal == pc \in {"exited", "crashed"}

\* the status the process ends with: the one given to sys.exit, 1 when an
\* uncaught exception ends the interpreter, 0 when the command returns
ExitStatus ==
    IF pc = "crashed" THEN 1 ELSE IF pc = "returned" THEN 0 ELSE exit_code

\* the events after the context-initialization event
CommandEvents == SubSeq(events, 2, Len(events))

CallsOf(op) == {i \in 1..Len(calls) : calls[i].op = op}

LastMessage == IF stdout = <<>> THEN Msg("none", "none") ELSE stdout[Len(stdout)]

Names(d) == {d.expectation_suite_names[n] : n \in 1..Len(d.expectation_suite_names)}

DefinedBatches == context.config.batches

\* every load the descriptor asks for succeeds
LoadsSucceed(d) ==
    /\ Names(d) \subseteq context.suites
    /\ Names(d) # {} => d.batch_kwargs \in context.loadable

ResolvesCleanly(d) == Names(d) # {} /\ LoadsSucceed(d)

BatchesOf(d) ==
    [n \in 1..Len(d.expectation_suite_names) |->
        Batch(d.batch_kwargs, d.expectation_suite_names[n])]

RECURSIVE ExpectedBatches(_)
ExpectedBatches(ds) ==
    IF ds = <<>> THEN <<>> ELSE BatchesOf(Head(ds)) \o ExpectedBatches(Tail(ds))

OneFailureEvent == Len(CommandEvents) = 1 /\ ~CommandEvents[1].success

\* ------------------------------------------------------------------ claims

\* C1: whenever the validation operator is invoked, the dispatched sequence
\* covers every batch descriptor of the checkpoint definition: each descriptor
\* has at least one suite name and a loaded batch for every one of them.
C1_NoPartialValidation ==
    CallsOf("run_validation_operator") # {} =>
        \A i \in 1..Len(DefinedBatches) :
            LET d == DefinedBatches[i] IN
            /\ Names(d) # {}
            /\ \A s \in Names(d) :
                 \E j \in 1..Len(assets_to_validate) :
                     assets_to_validate[j] = Batch(d.batch_kwargs, s)

\* C2: when get_checkpoint fails, the run prints the failure message (the
\* "Could not find checkpoint ... Try running" one for not-found), exits with
\* status 1 and does not proceed: no suite load, no batch load, no operator.
C2_CheckpointLookupFailureAborts ==
    (context.get # "found" /\ pc \notin {"start", "get_checkpoint"}) =>
        /\ pc = "exited"
        /\ exit_code = 1
        /\ Len(stdout) = 1
        /\ context.get = "not_found" =>
             stdout[1] = Msg("Could not find checkpoint. Try running", CheckpointName)
        /\ calls = <<Call("get_checkpoint", CheckpointName, "none")>>
        /\ batches_to_validate = <<>>

C2_Witness ==
    /\ context.get = "not_found"
    /\ pc = "exited"
    /\ calls = <<Call("get_checkpoint", CheckpointName, "none")>>

\* C3: when load_batch fails for a descriptor, the run reports "There was a
\* problem loading a batch with these batch_kwargs" with that descriptor's
\* kwargs, emits one failure event, ends with status 1, makes no further
\* suite or batch load and never invokes the operator.
C3_BatchLoadFailureReported ==
    \A i \in CallsOf("load_batch") :
        calls[i].b \notin context.loadable =>
            /\ i = Len(calls)
            /\ Terminal
            /\ ExitStatus = 1
            /\ LastMessage =
                 Msg("There was a problem loading a batch with these batch_kwargs",
                     calls[i].b)
            /\ OneFailureEvent

\* C4: when a descriptor has an empty expectation_suite_names list (and no
\* descriptor before it has a defect), the run reports "A batch has no suites
\* associated with it." with that batch's kwargs, emits one failure event and
\* exits with status 1.
C4_EmptySuiteListFails ==
    \A i \in 1..Len(DefinedBatches) :
        ( /\ Terminal
          /\ context.get = "found"
          /\ Names(DefinedBatches[i]) = {}
          /\ \A j \in 1..(i - 1) : ResolvesCleanly(DefinedBatches[j]) ) =>
            /\ ExitStatus = 1
            /\ LastMessage = Msg("A batch has no suites associated with it.",
                                 DefinedBatches[i].batch_kwargs)
            /\ OneFailureEvent

C6_UnknownOperatorReported ==
    \A i \in CallsOf("run_validation_operator") :
        calls[i].a \notin context.operators =>
            /\ pc = "exited"
            /\ exit_code = 1
            /\ exception = "none"
            /\ LastMessage =
                 Msg("No validation operator was found in your project.", calls[i].a)
            /\ OneFailureEvent

\* C7: the run ends with status 0 exactly when the checkpoint was found,
\* every descriptor has suites and every suite and batch resolved, the
\* operator was invoked and its result has success = true; on every other
\* path it ends with status 1.
C7_ExitStatus ==
    Terminal =>
        /\ ExitStatus \in {0, 1}
        /\ ExitStatus = 0 <=>
             ( /\ context.get = "found"
               /\ \A i \in 1..Len(DefinedBatches) : ResolvesCleanly(DefinedBatches[i])
               /\ Cardinality(CallsOf("run_validation_operator")) = 1
               /\ context.config.validation_operator_name \in context.operators
               /\ results.success )

\* C8: the operator is never invoked more than once, only after every batch
\* load, and on a run where every resolution step succeeds it is invoked
\* exactly once with all loaded batches in checkpoint-file order.
C8_SingleOrderedDispatch ==
    /\ Cardinality(CallsOf("run_validation_operator")) <= 1
    /\ \A i \in CallsOf("load_batch") :
         \A j \in CallsOf("run_validation_operator") : i < j
    /\ ( /\ Terminal
         /\ context.get = "found"
         /\ \A i \in 1..Len(DefinedBatches) : LoadsSucceed(DefinedBatches[i]) ) =>
            /\ Cardinality(CallsOf("run_validation_operator")) = 1
            /\ assets_to_validate = ExpectedBatches(DefinedBatches)

\* C9: every run has emitted exactly one command-level event when it
\* terminates, marked success = False on every abort path and success = True
\* on overall success.
C9_OneCommandEvent ==
    Terminal =>
        /\ Len(CommandEvents) = 1
        /\ CommandEvents[1].success <=>
             LastMessage.text \in {"Validation Failed!", "Validation Succeeded!"}

\* C10: every command-level event of a run carries the event name
\* "cli.checkpoint.run".
C10_EventName ==
    \A i \in 1..Len(CommandEvents) : CommandEvents[i].event = "cli.checkpoint.run"

\* C11: every `checkpoint list` invocation has emitted, when it ends, exactly
\* one command-level event after the context-initialization event, named
\* "cli.checkpoint.list" with success = True, with or without checkpoints.
C11_ListEmitsOneEvent ==
    pc \in {"exited", "returned"} =>
        /\ events[1] = Event("data_context.__init__", TRUE)
        /\ CommandEvents = <<Event("cli.checkpoint.list", TRUE)>>

\* C12: `checkpoint list` prints "Found N checkpoint." for N = 1 and
\* "Found N checkpoints." for N > 1, followed by every checkpoint name, and
\* "No checkpoints found." for N = 0; it ends with status 0 in each case.
C12_ListOutput ==
    pc \in {"exited", "returned"} =>
        LET N == Len(context.checkpoints) IN
        /\ ExitStatus = 0
        /\ N = 0 => stdout = <<Msg("No checkpoints found.", "none")>>
        /\ N = 1 => stdout[1] = Msg("Found N checkpoint.", 1)
        /\ N > 1 => stdout[1] = Msg("Found N checkpoints.", N)
        /\ N >= 1 =>
             /\ Len(stdout) = N + 1
             /\ \A i \in 1..N : stdout[i + 1].about = context.checkpoints[i]

C12_Witness ==
    /\ pc = "returned"
    /\ Len(context.checkpoints) > 1
    /\ Len(stdout) = Len(context.checkpoints) + 1

\* the key each variant requires, as the data model states it
RequiredKey(c) ==
    CASE c = "PathBatchKwargs" -> "path"
      [] c = "S3BatchKwargs" -> "s3"
      [] c = "InMemoryBatchKwargs" -> "dataset"
      [] c = "SqlAlchemyDatasourceTableBatchKwargs" -> "table"
      [] c = "SqlAlchemyDatasourceQueryBatchKwargs" -> "query"
      [] c = "SparkDFDatasourceQueryBatchKwargs" -> "query"

KeyedVariants ==
    {"PathBatchKwargs", "S3BatchKwargs", "InMemoryBatchKwargs",
     "SqlAlchemyDatasourceTableBatchKwargs", "SqlAlchemyDatasourceQueryBatchKwargs",
     "SparkDFDatasourceQueryBatchKwargs"}

Stored(key, v) == \E i \in DOMAIN kwargs : kwargs[i] = <<key, v>>

\* C13: for each of the six keyed variants and every mapping, construction
\* fails with InvalidBatchKwargsError exactly when the required key is absent;
\* when it is present construction succeeds and the accessor of that key
\* returns the stored value.
C13_RequiredKey ==
    (cls \in KeyedVariants /\ pc # "new") =>
        LET key == RequiredKey(cls) IN
        /\ raised = "InvalidBatchKwargsError" <=> ~Has(kwargs, key)
        /\ Has(kwargs, key) => (raised = "none" /\ pc \in {"constructed", "accessed"})
        /\ (pc = "accessed" /\ accessor = key) => Stored(key, value)

C13_Witness ==
    /\ cls = "S3BatchKwargs"
    /\ pc = "accessed"
    /\ accessor = "s3"
    /\ Stored("s3", value)

\* C14: the in-memory frame variants fail with InvalidBatchKwargsError (never
\* a raw KeyError) when `dataset` is absent, when it is not a frame of the
\* expected kind and, for the Spark variant, whenever pyspark is not
\* importable; they succeed only with the backend available and a dataset of
\* the matching kind.
C14_InMemoryFrames ==
    ( /\ cls \in {"PandasDatasourceInMemoryBatchKwargs",
                  "SparkDFDatasourceInMemoryBatchKwargs"}
      /\ pc # "new" ) =>
        LET expected == IF cls = "PandasDatasourceInMemoryBatchKwargs"
                        THEN "pandas_df" ELSE "spark_df"
            available == cls = "SparkDFDatasourceInMemoryBatchKwargs" => context.pyspark
        IN
        /\ raised \in {"none", "InvalidBatchKwargsError"}
        /\ ~Has(kwargs, "dataset") => raised = "InvalidBatchKwargsError"
        /\ (Has(kwargs, "dataset") /\ ~Stored("dataset", expected)) =>
              raised = "InvalidBatchKwargsError"
        /\ ~available => raised = "InvalidBatchKwargsError"
        /\ raised = "none" <=> (available /\ Stored("dataset", expected))

C14_Witness ==
    /\ cls = "PandasDatasourceInMemoryBatchKwargs"
    /\ pc = "failed"
    /\ ~Has(kwargs, "dataset")
    /\ raised = "InvalidBatchKwargsError"

\* C15: constructing BatchMarkers fails with InvalidBatchIdError exactly when
\* `ge_load_time` is absent; when present construction succeeds and the
\* ge_load_time accessor returns the stored value.
C15_BatchMarkers ==
    (cls = "BatchMarkers" /\ pc # "new") =>
        /\ raised = "InvalidBatchIdError" <=> ~Has(kwargs, "ge_load_time")
        /\ Has(kwargs, "ge_load_time") =>
              (raised = "none" /\ pc \in {"constructed", "accessed"})
        /\ pc = "accessed" => Stored("ge_load_time", value)

C15_Witness ==
    /\ cls = "BatchMarkers"
    /\ pc = "accessed"
    /\ accessor = "ge_load_time"
    /\ Stored("ge_load_time", value)

\* C16: reading an accessor of a constructed instance never fails and never
\* changes the mapping, and an accessor whose key is absent yields None.
C16_AccessorsReadOnly ==
    [][pc' = "accessed" =>
         /\ kwargs' = kwargs
         /\ raised' = "none"
         /\ value' # "KeyError"
         /\ ~Has(kwargs, accessor') => value' = "None"]_vars

C16_Witness ==
    /\ pc = "accessed"
    /\ accessor \in {"reader_method", "limit", "schema", "query_parameters"}
    /\ ~Has(kwargs, accessor)
    /\ value = "None"

\* the same items inserted in every other order
Reorderings(m) ==
    {[i \in DOMAIN m |-> m[p[i]]] : p \in Permutations(DOMAIN m)}

\* C17: two mappings with the same key/value content have the same
\* fingerprint, whatever the order in which their keys were inserted.
C17_FingerprintOrderFree ==
    pc = "constructed" =>
        \A m \in Reorderings(kwargs) : Fingerprint(m) = Fingerprint(kwargs)

C17_Witness ==
    /\ pc = "constructed"
    /\ Len(kwargs) >= 2
    /\ \E m \in Reorderings(kwargs) : m # kwargs

\* the load_batch calls made so far, in order
LoadCalls == SelectSeq(calls, LAMBDA c : c.op = "load_batch")

\* C18: a descriptor with k suite names gets exactly k batch loads, the i-th
\* with the i-th suite and the descriptor's own batch_kwargs: line 139 always
\* reads batch_kwargs from the checkpoint descriptor, never from the object an
\* earlier load returned, and the dispatched sequence has one loaded batch per
\* (descriptor, suite name) pair.
C18_LoadsReadDescriptor ==
    LET expected == ExpectedBatches(DefinedBatches) IN
    /\ pc = "load_batch" => batch.kind = "descriptor"
    /\ \A i \in DOMAIN LoadCalls :
         /\ i <= Len(expected)
         /\ LoadCalls[i].a = expected[i].suite
         /\ LoadCalls[i].b = expected[i].batch_kwargs
    /\ CallsOf("run_validation_operator") # {} => assets_to_validate = expected

\* C19: a run ends only by exiting with status 0 or 1: it never ends in an
\* uncaught exception or without an exit status, and once a failure event is
\* emitted nothing more is resolved.
C19_AlwaysExits ==
    /\ pc # "crashed"
    /\ exception = "none"
    /\ Terminal => exit_code \in {0, 1}
    /\ (CommandEvents # <<>> /\ ~CommandEvents[1].success) => pc = "exited"

\* the (descriptor, suite name) pairs whose suite or batch cannot be loaded
FailingPairs ==
    {i \in DOMAIN ExpectedBatches(DefinedBatches) :
        \/ ExpectedBatches(DefinedBatches)[i].suite \notin context.suites
        \/ ExpectedBatches(DefinedBatches)[i].batch_kwargs \notin context.loadable}

\* C20: resolution short-circuits in the order lookup, then per descriptor and
\* suite name the suite load followed by the batch load, then the operator:
\* the collaborator calls follow that order and the failure reported is the
\* first one in it; a batch-load failure is reported with status 1 whatever
\* the operator name is, the operator being reached only after every load.
C20_FirstDefectReported ==
    LET expected == ExpectedBatches(DefinedBatches) IN
    /\ \A j \in 2..Len(calls) :
         calls[j].op # "run_validation_operator" =>
            /\ (j \div 2) <= Len(expected)
            /\ calls[j] =
                 IF j % 2 = 0
                 THEN Call("load_expectation_suite", expected[j \div 2].suite, "none")
                 ELSE Call("load_batch", expected[j \div 2].suite,
                           expected[j \div 2].batch_kwargs)
    /\ (Terminal /\ context.get = "found" /\ FailingPairs # {}) =>
          LET first == CHOOSE i \in FailingPairs : \A k \in FailingPairs : i <= k
              pair == expected[first]
          IN /\ CallsOf("run_validation_operator") = {}
             /\ ExitStatus = 1
             /\ LastMessage =
                  IF pair.suite \notin context.suites
                  THEN Msg("Could not find a suite named", pair.suite)
                  ELSE Msg("There was a problem loading a batch with these batch_kwargs",
                           pair.batch_kwargs)

\* C21: once the validation operator has returned its result, the run prints
\* "Validation Failed!" and exits with status 1 when the result has
\* success = false, prints "Validation Succeeded!" and exits with status 0
\* when it has success = true, and in both cases its single command-level
\* event is marked success = True.
C21_ValidationOutcomeReported ==
    (pc = "exited" /\ CallsOf("run_validation_operator") # {}) =>
        /\ Len(CommandEvents) = 1
        /\ CommandEvents[1].success
        /\ LastMessage =
             Msg(IF results.success THEN "Validation Succeeded!"
                                    ELSE "Validation Failed!", "none")
        /\ exit_code = IF results.success THEN 0 ELSE 1

\* a run whose operator reported success = false has been reported
C21_Witness ==
    /\ pc = "exited"
    /\ CallsOf("run_validation_operator") # {}
    /\ ~results.success
    /\ LastMessage = Msg("Validation Failed!", "none")
    /\ exit_code = 1

\* ------------------------------------------- two runs of one checkpoint
\* checkpoint_run invoked twice on the same project: every name of the
\* function is a local, initialised when the function is entered, and the
\* module holds no state of its own
InitTwoRuns ==
    /\ Init
    /\ context.suites = {"suite_one"}
    /\ context.loadable = {"titanic_csv"}

\* what an invocation leaves behind for an observer
RunRecord ==
    [done |-> TRUE, calls |-> calls, assets |-> assets_to_validate,
     status |-> ExitStatus, results |-> results, exception |-> exception]

\* a second invocation that finds batches_to_validate as the first left it
Rerun_KeepsBatches ==
    /\ Terminal
    /\ ~prior.done
    /\ prior' = RunRecord
    /\ pc' = "start"
    /\ usage_event' = "none"
    /\ checkpoint_config' = EmptyConfig
    /\ bi' = 0
    /\ batch' = Unbound
    /\ suite_iter' = <<>>
    /\ si' = 0
    /\ suite' = "none"
    /\ assets_to_validate' = <<>>
    /\ results' = [success |-> FALSE]
    /\ stdout' = <<>>
    /\ events' = <<>>
    /\ exit_code' = NoExit
    /\ exception' = "none"
    /\ calls' = <<>>
    /\ UNCHANGED <<context, batches_to_validate, checkpoints, cls, kwargs,
                   raised, accessor, value>>

\* the command is invoked again once the first invocation is over: a new
\* process, a new entry into checkpoint_run, the same project
Rerun ==
    /\ Terminal
    /\ ~prior.done
    /\ prior' = RunRecord
    /\ pc' = "start"
    /\ usage_event' = "none"
    /\ checkpoint_config' = EmptyConfig
    /\ bi' = 0
    /\ batch' = Unbound
    /\ suite_iter' = <<>>
    /\ si' = 0
    /\ suite' = "none"
    /\ batches_to_validate' = <<>>
    /\ assets_to_validate' = <<>>
    /\ results' = [success |-> FALSE]
    /\ stdout' = <<>>
    /\ events' = <<>>
    /\ exit_code' = NoExit
    /\ exception' = "none"
    /\ calls' = <<>>
    /\ UNCHANGED <<context, checkpoints, cls, kwargs, raised, accessor, value>>

\* unchanged collaborators: the subscript of a loaded batch raises in the
\* second invocation exactly where it raised in the first
SameBatchAnswer ==
    (prior.done /\ batch.kind = "Batch") =>
        ((exception' = "KeyError") <=>
            (prior.exception = "KeyError" /\ Len(calls) = Len(prior.calls)))

\* unchanged collaborators: the operator returns what it returned before
SameOperatorAnswer ==
    (prior.done /\ pc' = "report") => results' = prior.results

NextTwoRuns ==
    \/ LoadDataContext
    \/ GetCheckpoint
    \/ NextBatch
    \/ NextSuite
    \/ LoadBatch /\ SameBatchAnswer
    \/ RunValidationOperator /\ SameOperatorAnswer
    \/ Report
    \/ Rerun

SpecTwoRuns == InitTwoRuns /\ [][NextTwoRuns]_vars

====
